---- MODULE Spec2Model ----
(***************************************************************************)
(* hello_world_mcp.py: an MCP server with one tool, "say_hello".           *)
(*                                                                         *)
(* The module registers two callbacks on a Server instance (list_tools     *)
(* and call_tool) and a main() that hands the stdio duplex stream to the   *)
(* runtime's serve loop.  The model keeps the position of main, the state  *)
(* of the stream, and what the callbacks returned for the requests the     *)
(* runtime dispatched to them.                                             *)
(***************************************************************************)
EXTENDS Integers, Sequences, FiniteSets, TLC

\* Number of requests the peer sends in one run of the server.
MaxRequests == 4

VARIABLES
    pc,            \* position of main: "start", "serving", "returned"
    stream,        \* the duplex stream: "open" or "closed"
    served,        \* number of requests dispatched to a callback so far
    history,       \* kinds of request served so far: "list_tools", "ok", "error"
    firstListing,  \* what the first list_tools call returned
    lastListing,   \* what the most recent list_tools call returned
    prevCall,      \* the call_tool invocation before the most recent one
    lastCall,      \* the most recent call_tool invocation and its outcome
    freshOutcome   \* reference run: outcome of each invocation as the first request

vars == <<pc, stream, served, history, firstListing, lastListing,
          prevCall, lastCall, freshOutcome>>

----------------------------------------------------------------------------
(* Python values that can arrive in a JSON arguments object.  Every value  *)
(* is a record of the same shape: t is the Python type name, s the payload *)
(* of a str, n the payload of an int or bool.                              *)

PyNone == [t |-> "NoneType", s |-> "", n |-> 0]

PyStr(x) == [t |-> "str", s |-> x, n |-> 0]

PyInt(k) == [t |-> "int", s |-> "", n |-> k]

PyBool(b) == [t |-> "bool", s |-> "", n |-> IF b THEN 1 ELSE 0]

Digit(d) ==
    CASE d = 0 -> "0" [] d = 1 -> "1" [] d = 2 -> "2" [] d = 3 -> "3"
      [] d = 4 -> "4" [] d = 5 -> "5" [] d = 6 -> "6" [] d = 7 -> "7"
      [] d = 8 -> "8" [] d = 9 -> "9"

RECURSIVE NatStr(_)
NatStr(k) ==
    IF k < 10 THEN Digit(k) ELSE NatStr(k \div 10) \o Digit(k % 10)

\* str(v), which is what the replacement field {person_name} of the
\* f-string formats its value with (format(v, "") is str(v) for these types).
str(v) ==
    CASE v.t = "str" -> v.s
      [] v.t = "int" -> IF v.n < 0 THEN "-" \o NatStr(-v.n) ELSE NatStr(v.n)
      [] v.t = "bool" -> IF v.n = 1 THEN "True" ELSE "False"
      [] v.t = "NoneType" -> "None"

\* repr(v): what {person_name!r} would format.
repr(v) ==
    IF v.t = "str" THEN "'" \o v.s \o "'" ELSE str(v)

----------------------------------------------------------------------------
(* The arguments of an invocation: a dict from string keys to values, or a *)
(* value that is no mapping (None).                                        *)

EmptyItems == [k \in {} |-> PyNone]

PyDict(items) == [t |-> "dict", items |-> items]

NoArguments == [t |-> "NoneType", items |-> EmptyItems]

IsMapping(arguments) == arguments.t = "dict"

HasKey(arguments, key) == key \in DOMAIN arguments.items

\* arguments.get(key): the value under key, None when the key is absent.
dict_get(arguments, key) ==
    IF HasKey(arguments, key) THEN arguments.items[key] ELSE PyNone

----------------------------------------------------------------------------
(* Outcomes of a callback: the returned content blocks, or the exception.  *)

NoError == [kind |-> "", msg |-> ""]

Returned(blocks) == [ok |-> TRUE, blocks |-> blocks, error |-> NoError]

Raised(kind, msg) ==
    [ok |-> FALSE, blocks |-> <<>>, error |-> [kind |-> kind, msg |-> msg]]

TextBlock(text) == [type |-> "text", text |-> text]

Greeting(who) == "Hello, " \o who \o "! This is your MCP server speaking."

NoGet == Raised("AttributeError", "'NoneType' object has no attribute 'get'")

----------------------------------------------------------------------------
(* list_tools: the catalog callback.                                       *)

SayHelloTool ==
    [name |-> "say_hello",
     description |-> "Says hello to someone",
     inputSchema |->
        [type |-> "object",
         properties |->
            [name |-> [type |-> "string",
                       description |-> "Name of the person to greet"]],
         required |-> <<"name">>]]

\* Mutant: a catalog kept in a registry that a served tool call appends to.
list_tools_registry ==
    IF "ok" \in history
    THEN <<SayHelloTool, [SayHelloTool EXCEPT !.name = "say_goodbye"]>>
    ELSE <<SayHelloTool>>

\* Mutant: the schema forgets that "name" is required.
list_tools_optional ==
    <<[SayHelloTool EXCEPT !.inputSchema.required = <<>>]>>

list_tools == <<SayHelloTool>>

----------------------------------------------------------------------------
(* call_tool: the invocation callback.                                     *)

\* Mutant: the replacement field written {person_name!r}.
call_tool_repr(name, arguments) ==
    IF name = "say_hello"
    THEN IF IsMapping(arguments)
         THEN Returned(<<TextBlock(Greeting(repr(dict_get(arguments, "name"))))>>)
         ELSE NoGet
    ELSE Raised("ValueError", "Unknown tool: " \o name)

\* Mutant: arguments.get("name") hoisted above the dispatch on the tool name.
call_tool_hoisted(name, arguments) ==
    IF ~IsMapping(arguments)
    THEN NoGet
    ELSE IF name = "say_hello"
         THEN Returned(<<TextBlock(Greeting(str(dict_get(arguments, "name"))))>>)
         ELSE Raised("ValueError", "Unknown tool: " \o name)

\* Mutant: arguments["name"] instead of arguments.get("name").
call_tool_subscript(name, arguments) ==
    IF name = "say_hello"
    THEN IF IsMapping(arguments)
         THEN IF HasKey(arguments, "name")
              THEN Returned(<<TextBlock(Greeting(str(arguments.items["name"])))>>)
              ELSE Raised("KeyError", "'name'")
         ELSE Raised("TypeError", "'NoneType' object is not subscriptable")
    ELSE Raised("ValueError", "Unknown tool: " \o name)

\* Mutant: person_name is a module-level global that keeps the name of the
\* previous greeting when the arguments carry none.
call_tool_global(name, arguments) ==
    IF name = "say_hello"
    THEN IF IsMapping(arguments)
         THEN LET person_name ==
                    IF ~HasKey(arguments, "name") /\ lastCall.valid
                       /\ lastCall.out.ok
                    THEN dict_get(lastCall.arguments, "name")
                    ELSE dict_get(arguments, "name")
              IN Returned(<<TextBlock(Greeting(str(person_name)))>>)
         ELSE NoGet
    ELSE Raised("ValueError", "Unknown tool: " \o name)

\* Mutant: the tool name compared without regard to case.
call_tool_caseless(name, arguments) ==
    IF name \in {"say_hello", "Say_Hello", "SAY_HELLO"}
    THEN IF IsMapping(arguments)
         THEN Returned(<<TextBlock(Greeting(str(dict_get(arguments, "name"))))>>)
         ELSE NoGet
    ELSE Raised("ValueError", "Unknown tool: " \o name)

\* Mutant: the greeting also uses an optional "title" argument.
call_tool_titled(name, arguments) ==
    IF name = "say_hello"
    THEN IF IsMapping(arguments)
         THEN LET who == str(dict_get(arguments, "name"))
              IN IF HasKey(arguments, "title")
                 THEN Returned(<<TextBlock(Greeting(
                          str(arguments.items["title"]) \o " " \o who))>>)
                 ELSE Returned(<<TextBlock(Greeting(who))>>)
         ELSE NoGet
    ELSE Raised("ValueError", "Unknown tool: " \o name)

call_tool(name, arguments) ==
    IF name = "say_hello"
    THEN IF IsMapping(arguments)
         THEN LET person_name == dict_get(arguments, "name")
              IN Returned(<<TextBlock(Greeting(str(person_name)))>>)
         ELSE NoGet
    ELSE Raised("ValueError", "Unknown tool: " \o name)

----------------------------------------------------------------------------
(* The requests a peer can send.                                           *)

ToolNames == {"say_hello", "Say_Hello", "", "unknown_tool"}

NameValues ==
    {PyStr("Ada"), PyStr("None"), PyNone, PyInt(-42), PyBool(TRUE)}

OtherKeys == {"title"}

OtherValues == {PyStr("Dr")}

Dicts ==
    {PyDict(f) : f \in UNION {[D -> NameValues \cup OtherValues] :
                               D \in SUBSET ({"name"} \cup OtherKeys)}}

ArgumentValues ==
    {NoArguments} \cup
    {a \in Dicts :
        \A k \in DOMAIN a.items :
            IF k = "name" THEN a.items[k] \in NameValues
                          ELSE a.items[k] \in OtherValues}

Invocations == [name : ToolNames, arguments : ArgumentValues]

NoCall ==
    [valid |-> FALSE, name |-> "", arguments |-> NoArguments,
     out |-> Returned(<<>>), after |-> {}]

----------------------------------------------------------------------------
(* The server.                                                             *)

Init ==
    /\ pc = "start"
    /\ stream = "open"
    /\ served = 0
    /\ history = {}
    /\ firstListing = <<>>
    /\ lastListing = <<>>
    /\ prevCall = NoCall
    /\ lastCall = NoCall
    /\ freshOutcome = [i \in Invocations |-> call_tool(i.name, i.arguments)]

\* main enters the stdio_server context and awaits app.run.
Start ==
    /\ pc = "start"
    /\ pc' = "serving"
    /\ UNCHANGED <<stream, served, history, firstListing, lastListing,
                   prevCall, lastCall, freshOutcome>>

\* The runtime dispatches a tools/list request to list_tools.
ListTools ==
    /\ pc = "serving"
    /\ stream = "open"
    /\ served < MaxRequests
    /\ lastListing' = list_tools
    /\ firstListing' = IF "list_tools" \in history THEN firstListing
                                                   ELSE list_tools
    /\ history' = history \cup {"list_tools"}
    /\ served' = served + 1
    /\ UNCHANGED <<pc, stream, prevCall, lastCall, freshOutcome>>

\* The runtime dispatches a tools/call request to call_tool.
CallTool(name, arguments) ==
    /\ pc = "serving"
    /\ stream = "open"
    /\ served < MaxRequests
    /\ LET out == call_tool(name, arguments)
       IN /\ lastCall' = [valid |-> TRUE, name |-> name,
                          arguments |-> arguments, out |-> out,
                          after |-> history]
          /\ history' = history \cup {IF out.ok THEN "ok" ELSE "error"}
    /\ prevCall' = [lastCall EXCEPT !.after = {}]
    /\ served' = served + 1
    /\ UNCHANGED <<pc, stream, firstListing, lastListing, freshOutcome>>

\* The peer closes its end of the stream.
PeerClose ==
    /\ stream = "open"
    /\ stream' = "closed"
    /\ UNCHANGED <<pc, served, history, firstListing, lastListing,
                   prevCall, lastCall, freshOutcome>>

\* app.run ends with the stream, the context exits and main returns.
Return ==
    /\ pc = "serving"
    /\ stream = "closed"
    /\ pc' = "returned"
    /\ UNCHANGED <<stream, served, history, firstListing, lastListing,
                   prevCall, lastCall, freshOutcome>>

Next ==
    \/ Start
    \/ ListTools
    \/ \E i \in Invocations : CallTool(i.name, i.arguments)
    \/ PeerClose
    \/ Return

Spec == Init /\ [][Next]_vars

----------------------------------------------------------------------------
(* Properties.                                                             *)

Called == lastCall.valid

Listed == "list_tools" \in history

AgreeOnName(a, b) ==
    /\ HasKey(a, "name") <=> HasKey(b, "name")
    /\ HasKey(a, "name") => a.items["name"] = b.items["name"]

UnknownTool(name) == Raised("ValueError", "Unknown tool: " \o name)

\* C1: say_hello with a mapping that has the key "name" with value n
\* succeeds and returns exactly one block, of type "text", whose text is
\* "Hello, " + str(n) + "! This is your MCP server speaking.".
C1_GreetsGivenName ==
    (/\ Called
     /\ lastCall.name = "say_hello"
     /\ IsMapping(lastCall.arguments)
     /\ HasKey(lastCall.arguments, "name"))
    => /\ lastCall.out.ok
       /\ lastCall.out.error = NoError
       /\ Len(lastCall.out.blocks) = 1
       /\ lastCall.out.blocks[1].type = "text"
       /\ lastCall.out.blocks[1].text =
            "Hello, " \o str(lastCall.arguments.items["name"])
                      \o "! This is your MCP server speaking."
       /\ lastCall.arguments.items["name"] = PyStr("Ada")
            => lastCall.out.blocks[1].text
                 = "Hello, Ada! This is your MCP server speaking."

C1_Witness ==
    /\ Called
    /\ lastCall.name = "say_hello"
    /\ IsMapping(lastCall.arguments)
    /\ HasKey(lastCall.arguments, "name")
    /\ lastCall.arguments.items["name"] = PyInt(-42)
    /\ lastCall.out.blocks
         = <<TextBlock("Hello, -42! This is your MCP server speaking.")>>

\* C2: every tool name other than exactly "say_hello" (the empty string and
\* case variants included), with any arguments value, mapping or not,
\* returns no blocks and fails with the unknown-tool error, which carries
\* the offending name.
C2_UnknownToolRejected ==
    (Called /\ lastCall.name # "say_hello")
    => /\ ~lastCall.out.ok
       /\ lastCall.out.blocks = <<>>
       /\ lastCall.out.error.kind = "ValueError"
       /\ lastCall.out.error.msg = "Unknown tool: " \o lastCall.name

C2_Witness ==
    /\ Called
    /\ prevCall.valid
    /\ lastCall.name = "Say_Hello"
    /\ ~IsMapping(lastCall.arguments)
    /\ lastCall.out.error.msg = "Unknown tool: Say_Hello"
    /\ prevCall.name = ""
    /\ prevCall.out.error.msg = "Unknown tool: "

\* C3: say_hello with a mapping that has no "name" key does not fail and
\* returns the one text block "Hello, None! This is your MCP server
\* speaking."; with mapping-valued arguments the unknown-tool error is the
\* only error call_tool produces.
C3_MissingNameTolerated ==
    (Called /\ IsMapping(lastCall.arguments))
    => /\ (lastCall.name = "say_hello" /\ ~HasKey(lastCall.arguments, "name"))
            => lastCall.out = Returned(
                 <<TextBlock("Hello, None! This is your MCP server speaking.")>>)
       /\ ~lastCall.out.ok
            => /\ lastCall.name # "say_hello"
               /\ lastCall.out = UnknownTool(lastCall.name)

C3_Witness ==
    /\ Called
    /\ lastCall.name = "say_hello"
    /\ lastCall.arguments = PyDict(EmptyItems)
    /\ lastCall.out.ok
    /\ prevCall.valid
    /\ IsMapping(prevCall.arguments)
    /\ ~prevCall.out.ok

\* C4: after any sequence of list_tools and call_tool requests, successful
\* or failing, list_tools returns what its first call returned: exactly one
\* descriptor, named "say_hello".
C4_CatalogFixed ==
    Listed
    => /\ lastListing = firstListing
       /\ Len(lastListing) = 1
       /\ lastListing[1].name = "say_hello"

C4_Witness ==
    /\ Listed
    /\ {"ok", "error"} \subseteq history
    /\ served = 4
    /\ Len(lastListing) = 1

\* C5: the outcome of a call_tool invocation does not depend on the
\* requests served before it: it is the outcome the same invocation has as
\* the first request of a run, and two servings of the same invocation in
\* one run have the same outcome.
C5_HistoryIndependent ==
    Called
    => /\ lastCall.out
            = freshOutcome[[name |-> lastCall.name,
                            arguments |-> lastCall.arguments]]
       /\ (/\ prevCall.valid
           /\ prevCall.name = lastCall.name
           /\ prevCall.arguments = lastCall.arguments)
            => prevCall.out = lastCall.out

C5_Witness ==
    /\ Called
    /\ lastCall.after = {"list_tools", "ok", "error"}
    /\ lastCall.name = "say_hello"
    /\ lastCall.arguments = PyDict(EmptyItems)
    /\ prevCall.valid
    /\ prevCall.out.ok
    /\ HasKey(prevCall.arguments, "name")

\* C6 as stated: call_tool accepts exactly the names list_tools advertises,
\* whatever the arguments: a call with tool name t succeeds iff t is the
\* name of exactly one descriptor of the listing, and no two descriptors of
\* the listing share a name.
C6_AcceptedIffAdvertised_Original ==
    Listed
    => /\ \A i, j \in DOMAIN lastListing :
            lastListing[i].name = lastListing[j].name => i = j
       /\ Called
            => (lastCall.out.ok
                  <=> Cardinality({i \in DOMAIN lastListing :
                                     lastListing[i].name = lastCall.name}) = 1)

\* C6, amended: a call with tool name t and arguments a succeeds iff t is
\* the name of exactly one descriptor of the listing and a is a mapping (an
\* advertised name with arguments that are no mapping fails on
\* arguments.get, with AttributeError); no two descriptors of the listing
\* share a name.
C6_AcceptedIffAdvertised ==
    Listed
    => /\ \A i, j \in DOMAIN lastListing :
            lastListing[i].name = lastListing[j].name => i = j
       /\ Called
            => /\ lastCall.out.ok
                    <=> /\ Cardinality({i \in DOMAIN lastListing :
                               lastListing[i].name = lastCall.name}) = 1
                        /\ IsMapping(lastCall.arguments)
               /\ (/\ ~IsMapping(lastCall.arguments)
                   /\ \E i \in DOMAIN lastListing :
                         lastListing[i].name = lastCall.name)
                    => lastCall.out.error.kind = "AttributeError"

C6_Witness ==
    /\ Listed
    /\ Called
    /\ prevCall.valid
    /\ "ok" \in history
    /\ prevCall.name = "say_hello"
    /\ ~IsMapping(prevCall.arguments)
    /\ prevCall.out = NoGet
    /\ lastCall.name = "Say_Hello"
    /\ IsMapping(lastCall.arguments)
    /\ ~lastCall.out.ok

\* C7: the one descriptor list_tools returns has the fields name,
\* description and inputSchema; the inputSchema has type "object",
\* properties holding exactly the field "name", of type "string", and the
\* required list <<"name">>.
C7_DescriptorShape ==
    Listed
    => /\ Len(lastListing) = 1
       /\ {"name", "description"} \subseteq DOMAIN lastListing[1]
       /\ LET schema == lastListing[1].inputSchema
          IN /\ schema.type = "object"
             /\ DOMAIN schema.properties = {"name"}
             /\ schema.properties["name"].type = "string"
             /\ schema.required = <<"name">>

C7_Witness ==
    /\ Listed
    /\ Len(lastListing) = 1
    /\ lastListing[1].inputSchema.required = <<"name">>
    /\ lastListing[1].description = "Says hello to someone"

\* C10: two invocations with the same tool name whose arguments mappings
\* agree on the key "name" (both without it, or both with the same value)
\* have the same outcome whatever their other keys; a mapping with other
\* keys never makes say_hello fail.
C10_OnlyNameMatters ==
    /\ (/\ Called
        /\ prevCall.valid
        /\ prevCall.name = lastCall.name
        /\ IsMapping(prevCall.arguments)
        /\ IsMapping(lastCall.arguments)
        /\ AgreeOnName(prevCall.arguments, lastCall.arguments))
         => prevCall.out = lastCall.out
    /\ (/\ Called
        /\ lastCall.name = "say_hello"
        /\ IsMapping(lastCall.arguments)
        /\ DOMAIN lastCall.arguments.items \ {"name"} # {})
         => lastCall.out.ok

C10_Witness ==
    /\ Called
    /\ prevCall.valid
    /\ prevCall.name = "say_hello"
    /\ lastCall.name = "say_hello"
    /\ prevCall.arguments = PyDict([name |-> PyStr("Ada")])
    /\ lastCall.arguments = PyDict([name |-> PyStr("Ada"), title |-> PyStr("Dr")])
    /\ prevCall.out = lastCall.out
    /\ lastCall.out.ok

====
